---- MODULE Spec2Model ----
(***************************************************************************)
(* HighWire meta-tag scraping and BibTeX serialisation (highwire.py) and   *)
(* the line-oriented BibTeX reader of the paper library (library.py).      *)
(*                                                                         *)
(* A Python str is a tuple of one-character strings.  A Python value is a  *)
(* record [k, v]: k = "str" (v the characters), k = "list" (v a tuple of   *)
(* character tuples), k = "none", or k = "raise" (v the exception name).   *)
(***************************************************************************)
EXTENDS Integers, Sequences, FiniteSets, TLC

\* ------------------------------------------------------------------ str --

LowerCase == <<"a","b","c","d","e","f","g","h","i","j","k","l","m","n","o","p","q","r","s","t","u","v","w","x","y","z">>
UpperCase == <<"A","B","C","D","E","F","G","H","I","J","K","L","M","N","O","P","Q","R","S","T","U","V","W","X","Y","Z">>
Digits == <<"0","1","2","3","4","5","6","7","8","9">>

Range(s) == { s[i] : i \in 1..Len(s) }

IsLower(c) == c \in Range(LowerCase)
IsUpper(c) == c \in Range(UpperCase)
IsDigit(c) == c \in Range(Digits)
IsAlnum(c) == IsLower(c) \/ IsUpper(c) \/ IsDigit(c)

\* the characters matched by \s and split on by str.split()
IsSpace(c) == c \in {" ", "\n", "\t"}

Min(S) == CHOOSE x \in S : \A y \in S : x <= y

IndexIn(c, s) == CHOOSE i \in 1..Len(s) : s[i] = c

\* str.upper() / str.lower() of one character
UpperChar(c) == IF IsLower(c) THEN UpperCase[IndexIn(c, LowerCase)] ELSE c
LowerChar(c) == IF IsUpper(c) THEN LowerCase[IndexIn(c, UpperCase)] ELSE c

Lower(s) == [i \in 1..Len(s) |-> LowerChar(s[i])]

\* s[i:] with a 1-based first index
From(s, i) == SubSeq(s, i, Len(s))

\* s.startswith(p) at position i
MatchAt(s, i, p) == i + Len(p) - 1 <= Len(s) /\ SubSeq(s, i, i + Len(p) - 1) = p

StartsWith(s, p) == MatchAt(s, 1, p)

\* p in s
Contains(s, p) == \E i \in 1..(Len(s) + 1) : MatchAt(s, i, p)

\* s.replace(p, r), leftmost non-overlapping occurrences (p non-empty)
RECURSIVE Replace(_, _, _)
Replace(s, p, r) ==
    IF s = <<>> THEN <<>>
    ELSE IF MatchAt(s, 1, p) THEN r \o Replace(From(s, Len(p) + 1), p, r)
    ELSE <<s[1]>> \o Replace(Tail(s), p, r)

\* sep.join(parts)
RECURSIVE Join(_, _)
Join(parts, sep) ==
    IF parts = <<>> THEN <<>>
    ELSE IF Len(parts) = 1 THEN parts[1]
    ELSE parts[1] \o sep \o Join(Tail(parts), sep)

\* s.split(c) for a one-character separator: empty fields are kept
RECURSIVE SplitOn(_, _)
SplitOn(s, c) ==
    IF \A i \in 1..Len(s) : s[i] # c THEN <<s>>
    ELSE LET i == CHOOSE j \in 1..Len(s) : s[j] = c /\ \A m \in 1..(j - 1) : s[m] # c
         IN  <<SubSeq(s, 1, i - 1)>> \o SplitOn(From(s, i + 1), c)

\* s.split(): fields separated by runs of whitespace, no empty field
RECURSIVE Split(_)
Split(s) ==
    IF s = <<>> THEN <<>>
    ELSE IF IsSpace(s[1]) THEN Split(Tail(s))
    ELSE LET stops == { j \in 1..Len(s) : IsSpace(s[j]) }
             e == IF stops = {} THEN Len(s) + 1
                  ELSE CHOOSE j \in stops : \A m \in stops : j <= m
         IN  <<SubSeq(s, 1, e - 1)>> \o Split(From(s, e))

\* s.strip()
RECURSIVE Strip(_)
Strip(s) ==
    IF s = <<>> THEN <<>>
    ELSE IF IsSpace(s[1]) THEN Strip(Tail(s))
    ELSE IF IsSpace(s[Len(s)]) THEN Strip(SubSeq(s, 1, Len(s) - 1))
    ELSE s

\* s.title(): a cased character is upper-cased when the character before it
\* is not cased, and lower-cased when it is
Title(s) ==
    [i \in 1..Len(s) |->
        IF i > 1 /\ (IsLower(s[i - 1]) \/ IsUpper(s[i - 1]))
        THEN LowerChar(s[i]) ELSE UpperChar(s[i])]

\* re.sub('[^0-9A-Za-z]', r, s) for a one-character or empty r
SubNonAlnum(s, r) ==
    LET RECURSIVE go(_)
        go(t) == IF t = <<>> THEN <<>>
                 ELSE (IF IsAlnum(t[1]) THEN <<t[1]>> ELSE r) \o go(Tail(t))
    IN  go(s)

\* code-point order of the characters that occur in attribute names
CodePoints == Digits \o UpperCase \o <<"_">> \o LowerCase
Ord(c) == IndexIn(c, CodePoints)

\* a < b for two str
RECURSIVE StrLess(_, _)
StrLess(a, b) ==
    IF b = <<>> THEN FALSE
    ELSE IF a = <<>> THEN TRUE
    ELSE IF a[1] = b[1] THEN StrLess(Tail(a), Tail(b))
    ELSE Ord(a[1]) < Ord(b[1])

\* ---------------------------------------------------------------- values --

Str(s) == [k |-> "str", v |-> s]
List(l) == [k |-> "list", v |-> l]
None == [k |-> "none", v |-> <<>>]
Raise(e) == [k |-> "raise", v |-> e]
Dict(d) == [k |-> "dict", v |-> d]

\* the items a for loop (or all(), join()) visits: the characters of a str,
\* the elements of a list
Iter(val) == IF val.k = "str" THEN [i \in 1..Len(val.v) |-> <<val.v[i]>>] ELSE val.v

\* str(val) as an f-string renders it; repr() of a list element quotes it
ReprStr(s) ==
    LET dq == Contains(s, <<"'">>) /\ ~Contains(s, <<"\"">>)
        e1 == Replace(s, <<"\\">>, <<"\\","\\">>)
        e2 == Replace(Replace(e1, <<"\n">>, <<"\\","n">>), <<"\t">>, <<"\\","t">>)
    IN  IF dq THEN <<"\"">> \o e2 \o <<"\"">>
        ELSE <<"'">> \o Replace(e2, <<"'">>, <<"\\","'">>) \o <<"'">>

Format(val) ==
    IF val.k = "str" THEN val.v
    ELSE IF val.k = "none" THEN <<"N","o","n","e">>
    ELSE <<"[">> \o Join([i \in 1..Len(val.v) |-> ReprStr(val.v[i])], <<","," ">>) \o <<"]">>

\* ------------------------------------------------------------- resolvers --
\* highwire is the dict built by scrape_highwire: a function from key to
\* value.  url and html are unused by every resolver.

Get(highwire, key) == IF key \in DOMAIN highwire THEN highwire[key] ELSE None

parse_author(highwire) ==
    IF <<"a","u","t","h","o","r">> \notin DOMAIN highwire THEN None
    ELSE LET items == Iter(highwire[<<"a","u","t","h","o","r">>])
         IN  IF \A i \in 1..Len(items) : Contains(items[i], <<",">>)
             THEN Str(Join(items, <<" ","a","n","d"," ">>))
             ELSE IF \E i \in 1..Len(items) : Split(items[i]) = <<>>
             THEN Raise("IndexError")
             ELSE Str(Join([i \in 1..Len(items) |->
                        LET names == Split(items[i])
                        IN  names[Len(names)] \o <<","," ">>
                              \o Join(SubSeq(names, 1, Len(names) - 1), <<" ">>)],
                      <<" ","a","n","d"," ">>))

parse_doi(highwire) == Get(highwire, <<"d","o","i">>)

parse_journal(highwire) == Get(highwire, <<"j","o","u","r","n","a","l">>)

parse_number(highwire) ==
    IF <<"n","u","m","b","e","r">> \in DOMAIN highwire THEN highwire[<<"n","u","m","b","e","r">>]
    ELSE IF <<"i","s","s","u","e">> \in DOMAIN highwire THEN highwire[<<"i","s","s","u","e">>]
    ELSE None

parse_pages(highwire) ==
    IF <<"f","i","r","s","t","p","a","g","e">> \in DOMAIN highwire /\ <<"l","a","s","t","p","a","g","e">> \in DOMAIN highwire
    THEN LET first_page == highwire[<<"f","i","r","s","t","p","a","g","e">>]
             last_page == highwire[<<"l","a","s","t","p","a","g","e">>]
         IN  IF first_page # last_page
             THEN Str(Format(first_page) \o <<"-","-">> \o Format(last_page))
             ELSE None
    ELSE None

parse_publisher(highwire) == Get(highwire, <<"p","u","b","l","i","s","h","e","r">>)

parse_title(highwire) == Get(highwire, <<"t","i","t","l","e">>)

\* highwire[attr].lower() == 'jour' or 'article' in highwire[attr]
TypeMatches(val) == Lower(val) = <<"j","o","u","r">> \/ Contains(val, <<"a","r","t","i","c","l","e">>)

parse_type(highwire) ==
    LET RECURSIVE go(_)
        go(attrs) ==
            IF attrs = <<>> THEN Str(<<"i","n","p","r","o","c","e","e","d","i","n","g","s">>)
            ELSE IF attrs[1] \notin DOMAIN highwire THEN go(Tail(attrs))
            ELSE IF highwire[attrs[1]].k # "str" THEN Raise("AttributeError")
            ELSE IF TypeMatches(highwire[attrs[1]].v) THEN Str(<<"a","r","t","i","c","l","e">>)
            ELSE go(Tail(attrs))
    IN  go(<<<<"t","y","p","e">>, <<"a","r","t","i","c","l","e","_","t","y","p","e">>>>)

parse_volume(highwire) == Get(highwire, <<"v","o","l","u","m","e">>)

\* re.search('[0-9]{4}', s): the leftmost four consecutive digits, or <<>>
SearchYear(s) ==
    LET hits == { i \in 1..(Len(s) - 3) : \A j \in i..(i + 3) : IsDigit(s[j]) }
    IN  IF hits = {} THEN <<>>
        ELSE LET i == CHOOSE h \in hits : \A m \in hits : h <= m
             IN  SubSeq(s, i, i + 3)

parse_year(highwire) ==
    LET RECURSIVE go(_)
        go(attrs) ==
            IF attrs = <<>> THEN None
            ELSE IF attrs[1] \notin DOMAIN highwire THEN go(Tail(attrs))
            ELSE IF highwire[attrs[1]].k # "str" THEN Raise("TypeError")
            ELSE IF SearchYear(highwire[attrs[1]].v) # <<>>
            THEN Str(SearchYear(highwire[attrs[1]].v))
            ELSE go(Tail(attrs))
    IN  go(<<<<"d","a","t","e">>, <<"p","u","b","l","i","c","a","t","i","o","n","_","d","a","t","e">>, <<"o","n","l","i","n","e","_","d","a","t","e">>, <<"c","o","v","e","r","_","d","a","t","e">>>>)

\* ------------------------------------------------------------ the record --
\* bibtex is a dict in insertion order: a tuple of <<key, value>> pairs.

Keys(bibtex) == { bibtex[i][1] : i \in 1..Len(bibtex) }

Item(bibtex, key) == bibtex[CHOOSE i \in 1..Len(bibtex) : bibtex[i][1] = key][2]

\* bibtex[key] = val
SetItem(bibtex, key, val) ==
    IF key \in Keys(bibtex)
    THEN [i \in 1..Len(bibtex) |-> IF bibtex[i][1] = key THEN <<key, val>> ELSE bibtex[i]]
    ELSE Append(bibtex, <<key, val>>)

\* part[0].upper() + part[1:]
Capitalize(part) == <<UpperChar(part[1])>> \o Tail(part)

create_bibtex_id(bibtex) ==
    IF ~({<<"a","u","t","h","o","r">>, <<"y","e","a","r">>, <<"t","i","t","l","e">>} \subseteq Keys(bibtex)) THEN Str(<<"F","I","X","M","E">>)
    ELSE IF Item(bibtex, <<"a","u","t","h","o","r">>).k # "str" THEN Raise("AttributeError")
    ELSE IF Item(bibtex, <<"y","e","a","r">>).k # "str" THEN Raise("TypeError")
    ELSE IF Item(bibtex, <<"t","i","t","l","e">>).k # "str" THEN Raise("TypeError")
    ELSE LET surname == SplitOn(Item(bibtex, <<"a","u","t","h","o","r">>).v, ",")[1]
             title == SubNonAlnum(Item(bibtex, <<"t","i","t","l","e">>).v, <<" ">>)
             words == Split(title)
             parts == SubSeq(words, 1, IF Len(words) < 3 THEN Len(words) ELSE 3)
             tail == Title(Join([i \in 1..Len(parts) |-> Capitalize(parts[i])], <<" ">>))
         IN  Str(Replace(surname \o Item(bibtex, <<"y","e","a","r">>).v \o tail, <<" ">>, <<>>))

\* bibtex.items() left in insertion order
SortedMutant(items) == items

\* sorted(bibtex.items()): the keys are distinct, so the values are never compared
RECURSIVE Sorted(_)
Sorted(items) ==
    IF items = <<>> THEN <<>>
    ELSE LET m == CHOOSE i \in 1..Len(items) :
                      \A j \in 1..Len(items) : j = i \/ StrLess(items[i][1], items[j][1])
         IN  <<items[m]>> \o Sorted([i \in 1..(Len(items) - 1) |->
                                        IF i < m THEN items[i] ELSE items[i + 1]])

bibtex_to_str(bibtex) ==
    LET rest == SelectSeq(Sorted(bibtex), LAMBDA it : it[1] \notin {<<"t","y","p","e">>, <<"i","d">>})
        head == <<"@">> \o Format(Item(bibtex, <<"t","y","p","e">>)) \o <<" ","{">>
                  \o Format(Item(bibtex, <<"i","d">>)) \o <<",">>
        lines == <<head>>
                   \o [i \in 1..Len(rest) |->
                         <<" "," "," "," ">> \o rest[i][1] \o <<" ","="," ","{">> \o Format(rest[i][2]) \o <<"}",",">>]
                   \o <<<<"}">>>>
    IN  Join(lines, <<"\n">>)

\* -------------------------------------------------------------- scraping --

\* urlsplit(url).netloc: what follows the first '//' up to the next '/', '?'
\* or '#'; empty when the url has no '//'
Netloc(url) ==
    LET starts == { i \in 1..Len(url) : MatchAt(url, i, <<"/","/">>) }
    IN  IF starts = {} THEN <<>>
        ELSE LET b == 2 + CHOOSE i \in starts : \A j \in starts : i <= j
                 stops == { i \in b..Len(url) : url[i] \in {"/", "?", "#"} }
                 e == IF stops = {} THEN Len(url) + 1
                      ELSE CHOOSE i \in stops : \A j \in stops : i <= j
             IN  SubSeq(url, b, e - 1)

\* re.search(r'([^.]+\.)*([^.]+)(\.[^.]+)', netloc): the match starts at the
\* first non-empty label that is followed by a non-empty label, and group 2
\* is the last label but one of the run of non-empty labels that starts there
get_domain(url) ==
    LET labels == SplitOn(Netloc(url), ".")
        starts == { i \in 1..(Len(labels) - 1) : labels[i] # <<>> /\ labels[i + 1] # <<>> }
    IN  IF starts = {} THEN Raise("ValueError")
        ELSE LET b == CHOOSE i \in starts : \A j \in starts : i <= j
                 ends == { j \in (b + 1)..Len(labels) :
                             /\ \A m \in b..j : labels[m] # <<>>
                             /\ (j = Len(labels) \/ labels[j + 1] = <<>>) }
                 e == CHOOSE j \in ends : TRUE
             IN  Str(Lower(SubNonAlnum(labels[e - 1], <<>>)))

\* the names bound in the module's globals()
Globals ==
    { <<"r","e">>,
      <<"l","i","t","e","r","a","l","_","e","v","a","l">>,
      <<"d","e","f","a","u","l","t","d","i","c","t">>,
      <<"n","a","m","e","d","t","u","p","l","e">>,
      <<"c","h","a","i","n">>,
      <<"P","a","t","h">>,
      <<"r","u","n">>,
      <<"i","n","d","e","n","t">>,
      <<"d","e","d","e","n","t">>,
      <<"u","r","l","s","p","l","i","t">>,
      <<"r","e","q","u","e","s","t","s">>,
      <<"B","e","a","u","t","i","f","u","l","S","o","u","p">>,
      <<"g","o","o","g","l","e">>,
      <<"e","x","t","r","a","c","t","_","t","e","x","t">>,
      <<"d","o","w","n","l","o","a","d">>,
      <<"p","a","r","s","e","_","a","u","t","h","o","r">>,
      <<"p","a","r","s","e","_","d","o","i">>,
      <<"p","a","r","s","e","_","j","o","u","r","n","a","l">>,
      <<"p","a","r","s","e","_","n","u","m","b","e","r">>,
      <<"p","a","r","s","e","_","p","a","g","e","s">>,
      <<"p","a","r","s","e","_","p","u","b","l","i","s","h","e","r">>,
      <<"p","a","r","s","e","_","t","i","t","l","e">>,
      <<"p","a","r","s","e","_","t","y","p","e">>,
      <<"p","a","r","s","e","_","v","o","l","u","m","e">>,
      <<"p","a","r","s","e","_","y","e","a","r">>,
      <<"c","r","e","a","t","e","_","b","i","b","t","e","x","_","i","d">>,
      <<"s","c","r","a","p","e","_","s","c","i","e","n","c","e","d","i","r","e","c","t","_","a","u","t","h","o","r">>,
      <<"g","e","t","_","d","o","m","a","i","n">>,
      <<"g","e","t","_","a","t","t","r","i","b","u","t","e","s">>,
      <<"s","c","r","a","p","e","_","h","i","g","h","w","i","r","e">>,
      <<"h","i","g","h","w","i","r","e","_","t","o","_","b","i","b","t","e","x">>,
      <<"b","i","b","t","e","x","_","t","o","_","s","t","r">>,
      <<"t","o","_","b","i","b","t","e","x">>,
      <<"d","o","_","t","e","s","t">>,
      <<"g","e","t","_","p","d","f","_","i","n","f","o">>,
      <<"f","i","n","d","_","p","d","f","_","b","i","b","t","e","x">>,
      <<"d","o","_","b","i","b","t","e","x">>,
      <<"m","a","i","n">> }

\* re.fullmatch('scrape_(?P<domain>[^_]*)_(?P<attr>[a-z]*)', name)
ScrapeName(name) ==
    /\ StartsWith(name, <<"s","c","r","a","p","e","_">>)
    /\ Len(SplitOn(From(name, 8), "_")) = 2
    /\ \A c \in Range(SplitOn(From(name, 8), "_")[2]) : IsLower(c)

get_attributes ==
    { SplitOn(name, "_")[2] : name \in { n \in Globals : StartsWith(n, <<"p","a","r","s","e","_">>) } }
      \cup { SplitOn(From(name, 8), "_")[2] :
               name \in { n \in Globals : ~StartsWith(n, <<"p","a","r","s","e","_">>) /\ ScrapeName(n) } }

\* functions[f'parse_{attr}'](highwire, url, html)
Resolver(attr, highwire) ==
    CASE attr = <<"a","u","t","h","o","r">> -> parse_author(highwire)
      [] attr = <<"d","o","i">> -> parse_doi(highwire)
      [] attr = <<"j","o","u","r","n","a","l">> -> parse_journal(highwire)
      [] attr = <<"n","u","m","b","e","r">> -> parse_number(highwire)
      [] attr = <<"p","a","g","e","s">> -> parse_pages(highwire)
      [] attr = <<"p","u","b","l","i","s","h","e","r">> -> parse_publisher(highwire)
      [] attr = <<"t","i","t","l","e">> -> parse_title(highwire)
      [] attr = <<"t","y","p","e">> -> parse_type(highwire)
      [] attr = <<"v","o","l","u","m","e">> -> parse_volume(highwire)
      [] attr = <<"y","e","a","r">> -> parse_year(highwire)

\* the name of the resolver of attr, as err records it
ResolverName(attr) ==
    CASE attr = <<"a","u","t","h","o","r">> -> "parse_author"
      [] attr = <<"d","o","i">> -> "parse_doi"
      [] attr = <<"j","o","u","r","n","a","l">> -> "parse_journal"
      [] attr = <<"n","u","m","b","e","r">> -> "parse_number"
      [] attr = <<"p","a","g","e","s">> -> "parse_pages"
      [] attr = <<"p","u","b","l","i","s","h","e","r">> -> "parse_publisher"
      [] attr = <<"t","i","t","l","e">> -> "parse_title"
      [] attr = <<"t","y","p","e">> -> "parse_type"
      [] attr = <<"v","o","l","u","m","e">> -> "parse_volume"
      [] attr = <<"y","e","a","r">> -> "parse_year"

\* re.finditer(r'<\s*meta[^>]*>', html) from position i: the matched tags
RECURSIVE MetaTags(_, _)
MetaTags(html, i) ==
    LET opens == { j \in i..Len(html) : html[j] = "<" }
    IN  IF opens = {} THEN <<>>
        ELSE LET o == Min(opens)
                 notws == { j \in (o + 1)..Len(html) : ~IsSpace(html[j]) }
                 m == IF notws = {} THEN Len(html) + 1 ELSE Min(notws)
                 closes == { j \in (m + 4)..Len(html) : html[j] = ">" }
             IN  IF MatchAt(html, m, <<"m","e","t","a">>) /\ closes # {}
                 THEN <<SubSeq(html, o, Min(closes))>> \o MetaTags(html, Min(closes) + 1)
                 ELSE MetaTags(html, o + 1)

\* re.finditer('([a-z]+)="([^"]*)"', tag) from position i: <<group 1, group 2>>
\* (a run of lower-case letters that '="' does not follow holds no match)
RECURSIVE TagAttrs(_, _)
TagAttrs(tag, i) ==
    LET lowers == { j \in i..Len(tag) : IsLower(tag[j]) }
    IN  IF lowers = {} THEN <<>>
        ELSE LET b == Min(lowers)
                 others == { j \in b..Len(tag) : ~IsLower(tag[j]) }
                 r == IF others = {} THEN Len(tag) + 1 ELSE Min(others)
                 quotes == { j \in (r + 2)..Len(tag) : tag[j] = "\"" }
             IN  IF MatchAt(tag, r, <<"=","\"">>) /\ quotes # {}
                 THEN <<<<SubSeq(tag, b, r - 1), SubSeq(tag, r + 2, Min(quotes) - 1)>>>>
                        \o TagAttrs(tag, Min(quotes) + 1)
                 ELSE TagAttrs(tag, r)

\* the dict comprehension over the attributes of one tag, then attrs.get(key, '')
AttrGet(tag, key) ==
    LET pairs == TagAttrs(tag, 1)
        hits == { i \in 1..Len(pairs) : Lower(pairs[i][1]) = key }
    IN  IF hits = {} THEN <<>>
        ELSE pairs[CHOOSE i \in hits : \A j \in hits : j <= i][2]

\* name.replace('citation_', '')
KeyOf(name) == Replace(name, <<"c","i","t","a","t","i","o","n","_">>, <<>>)

\* name.startswith('citation_') and name != 'citation_reference'
Retained(name) == StartsWith(name, <<"c","i","t","a","t","i","o","n","_">>) /\ name # <<"c","i","t","a","t","i","o","n","_","r","e","f","e","r","e","n","c","e">>

\* the scan: the defaultdict(list) after the loop over the meta tags
Scan(html) ==
    LET tags == MetaTags(html, 1)
        kept == SelectSeq(tags, LAMBDA t : Retained(AttrGet(t, <<"n","a","m","e">>)))
        keys == { KeyOf(AttrGet(kept[i], <<"n","a","m","e">>)) : i \in 1..Len(kept) }
    IN  [key \in keys |->
           LET mine == SelectSeq(kept, LAMBDA t : KeyOf(AttrGet(t, <<"n","a","m","e">>)) = key)
           IN  List([i \in 1..Len(mine) |-> AttrGet(mine[i], <<"c","o","n","t","e","n","t">>)])]

\* extract_text of an element whose only text node is t
extract_text(t) ==
    LET spaced == [i \in 1..Len(t) |-> IF IsSpace(t[i]) THEN " " ELSE t[i]]
    IN  Replace(Strip(spaced), <<" "," ","+">>, <<" ">>)

\* the text that follows the first occurrence of marker, up to the next '<';
\* a one-element tuple, or <<>> when the marker does not occur
TextAfter(s, marker) ==
    LET starts == { i \in 1..Len(s) : MatchAt(s, i, marker) }
    IN  IF starts = {} THEN <<>>
        ELSE LET b == Len(marker) + CHOOSE i \in starts : \A j \in starts : i <= j
                 stops == { i \in b..Len(s) : s[i] = "<" }
                 e == IF stops = {} THEN Len(s) + 1
                      ELSE CHOOSE i \in stops : \A j \in stops : i <= j
             IN  <<SubSeq(s, b, e - 1)>>

\* the pieces of s that follow each occurrence of marker
RECURSIVE Pieces(_, _)
Pieces(s, marker) ==
    LET starts == { i \in 1..Len(s) : MatchAt(s, i, marker) }
    IN  IF starts = {} THEN <<>>
        ELSE LET b == Len(marker) + CHOOSE i \in starts : \A j \in starts : i <= j
                 rest == From(s, b)
                 nexts == { i \in 1..Len(rest) : MatchAt(rest, i, marker) }
                 e == IF nexts = {} THEN Len(rest) + 1
                      ELSE CHOOSE i \in nexts : \A j \in nexts : i <= j
             IN  <<SubSeq(rest, 1, e - 1)>> \o Pieces(From(rest, e), marker)

\* scrape_sciencedirect_author: soup.find(id='author-group') is None when no
\* element carries that id, and None.find_all raises; tag.find(class_=...) is
\* None when an author entry lacks the sub-element, and extract_text(None)
\* raises
scrape_sciencedirect_author(html) ==
    LET anchors == { i \in 1..Len(html) : MatchAt(html, i, <<"i","d","=","\"","a","u","t","h","o","r","-","g","r","o","u","p","\"">>) }
    IN  IF anchors = {} THEN Raise("AttributeError")
        ELSE LET group == From(html, CHOOSE i \in anchors : \A j \in anchors : i <= j)
                 tags == Pieces(group, <<"c","l","a","s","s","=","\"","a","u","t","h","o","r","\"">>)
                 given(t) == TextAfter(t, <<"c","l","a","s","s","=","\"","g","i","v","e","n","-","n","a","m","e","\"",">">>)
                 sur(t) == TextAfter(t, <<"c","l","a","s","s","=","\"","s","u","r","n","a","m","e","\"",">">>)
             IN  IF \E i \in 1..Len(tags) : given(tags[i]) = <<>> \/ sur(tags[i]) = <<>>
                 THEN Raise("AttributeError")
                 ELSE List([i \in 1..Len(tags) |->
                             extract_text(sur(tags[i])[1]) \o <<","," ">>
                               \o extract_text(given(tags[i])[1])])

\* functions[f'scrape_{domain}_{attr}'](html), for a name bound in globals()
Override(domain, attr, html) ==
    CASE <<"s","c","r","a","p","e","_">> \o domain \o <<"_">> \o attr = <<"s","c","r","a","p","e","_","s","c","i","e","n","c","e","d","i","r","e","c","t","_","a","u","t","h","o","r">>
           -> scrape_sciencedirect_author(html)

\* ----------------------------------------------------------- the library --

\* Paper.__slots__
Slots ==
    { <<"i","d">>,
      <<"t","y","p","e">>,
      <<"a","d","d","r","e","s","s">>,
      <<"a","u","t","h","o","r">>,
      <<"b","o","o","k","t","i","t","l","e">>,
      <<"d","o","i">>,
      <<"e","d","i","t","o","r">>,
      <<"e","d","i","t","i","o","n">>,
      <<"h","o","w","p","u","b","l","i","s","h","e","d">>,
      <<"i","n","s","t","i","t","u","t","i","o","n">>,
      <<"j","o","u","r","n","a","l">>,
      <<"m","o","n","t","h">>,
      <<"n","o","t","e">>,
      <<"n","u","m","b","e","r">>,
      <<"o","r","g","a","n","i","z","a","t","i","o","n">>,
      <<"p","a","g","e","s">>,
      <<"p","u","b","l","i","s","h","e","r">>,
      <<"s","c","h","o","o","l">>,
      <<"s","e","r","i","e","s">>,
      <<"t","i","t","l","e">>,
      <<"t","r","a","n","s","l","a","t","o","r">>,
      <<"u","r","l">>,
      <<"v","e","n","u","e">>,
      <<"v","o","l","u","m","e">>,
      <<"y","e","a","r">> }

\* line.rstrip()
RECURSIVE RStrip(_)
RStrip(s) ==
    IF s # <<>> /\ IsSpace(s[Len(s)]) THEN RStrip(SubSeq(s, 1, Len(s) - 1)) ELSE s

\* re.fullmatch('@(?P<type>[^ ]+) *{(?P<id>[^,]+),', line): <<type, id>> in a
\* one-element tuple, or <<>>; the greedy type group takes the last brace that
\* leaves a match
MatchEntry(line) ==
    LET n == Len(line)
        braces == { b \in 3..(n - 2) :
                      /\ line[b] = "{"
                      /\ \A i \in (b + 1)..(n - 1) : line[i] # ","
                      /\ \E t \in 2..(b - 1) :
                           /\ \A i \in 2..t : line[i] # " "
                           /\ \A i \in (t + 1)..(b - 1) : line[i] = " " }
    IN  IF n < 5 \/ line[1] # "@" \/ line[n] # "," \/ braces = {} THEN <<>>
        ELSE LET b == CHOOSE x \in braces : \A y \in braces : y <= x
                 t == CHOOSE x \in 2..(b - 1) :
                        /\ \A i \in 2..x : line[i] # " "
                        /\ \A i \in (x + 1)..(b - 1) : line[i] = " "
             IN  <<<<SubSeq(line, 2, t), SubSeq(line, b + 1, n - 1)>>>>

\* re.fullmatch(' *(?P<attr>[^ =]+) *= *{(?P<val>.+)},', line): <<attr, val>>
\* in a one-element tuple, or <<>>
MatchField(line) ==
    LET n == Len(line)
        SkipSpaces(i) == LET ns == { j \in i..n : line[j] # " " }
                         IN  IF ns = {} THEN n + 1 ELSE CHOOSE j \in ns : \A m \in ns : j <= m
        a == SkipSpaces(1)
        stops == { j \in a..n : line[j] \in {" ", "="} }
        ae == IF stops = {} THEN n + 1 ELSE CHOOSE j \in stops : \A m \in stops : j <= m
        eq == SkipSpaces(ae)
        br == SkipSpaces(eq + 1)
    IN  IF /\ ae > a
           /\ eq <= n /\ line[eq] = "="
           /\ br <= n /\ line[br] = "{"
           /\ br + 1 <= n - 2
           /\ line[n - 1] = "}" /\ line[n] = ","
           /\ \A i \in (br + 1)..(n - 2) : line[i] # "\n"
        THEN <<<<SubSeq(line, a, ae - 1), SubSeq(line, br + 1, n - 2)>>>>
        ELSE <<>>

\* Library._read_bibtex over the remaining lines: self.papers, or the raise.
\* paper is a one-element tuple holding the open Paper (a function from slot
\* to str), or <<>> for None.
RECURSIVE ReadLines(_, _, _)
ReadLines(lines, paper, papers) ==
    IF lines = <<>> THEN [k |-> "papers", v |-> papers]
    ELSE LET line == RStrip(lines[1])
         IN  IF line = <<>> THEN ReadLines(Tail(lines), paper, papers)
             ELSE IF line[1] = "@"
             THEN IF MatchEntry(line) = <<>> THEN Raise("AssertionError")
                  ELSE ReadLines(Tail(lines),
                                 <<(<<"i","d">> :> MatchEntry(line)[1][2])
                                     @@ (<<"t","y","p","e">> :> MatchEntry(line)[1][1])>>,
                                 papers)
             ELSE IF line[1] = "}"
             THEN IF paper = <<>> THEN Raise("AttributeError")
                  ELSE ReadLines(Tail(lines), <<>>,
                                 (paper[1][<<"i","d">>] :> paper[1]) @@ papers)
             ELSE IF MatchField(line) = <<>> THEN Raise("AssertionError")
             ELSE IF paper = <<>> \/ MatchField(line)[1][1] \notin Slots
             THEN Raise("AttributeError")
             ELSE ReadLines(Tail(lines),
                            <<(MatchField(line)[1][1] :> MatchField(line)[1][2]) @@ paper[1]>>,
                            papers)

\* for line in fd, for a file that holds text
_read_bibtex(text) == ReadLines(SplitOn(text, "\n"), <<>>, <<>>)

\* ---------------------------------------------------------- the pipeline --

\* one pass of the loop at scrape_highwire lines 184-188: the dict after it,
\* or the raise of the override, which ends the run
FillOne(highwire, domain, attr, html) ==
    IF attr \notin DOMAIN highwire
         /\ (<<"s","c","r","a","p","e","_">> \o domain \o <<"_">> \o attr) \in Globals
    THEN LET val == Override(domain, attr, html)
         IN  IF val.k = "raise" THEN val
             ELSE IF val.k # "none" THEN Dict((attr :> val) @@ highwire)
             ELSE Dict(highwire)
    ELSE Dict(highwire)

\* the loop at scrape_highwire lines 189-191: len(val) == 1 collapses val
Collapsed(highwire) ==
    [key \in DOMAIN highwire |->
        IF Len(highwire[key].v) = 1 THEN Str(highwire[key].v[1]) ELSE highwire[key]]

\* one pass of the loop at highwire_to_bibtex lines 198-203
ResolveOne(bibtex, attr, highwire) ==
    LET val == IF (<<"p","a","r","s","e","_">> \o attr) \in Globals THEN Resolver(attr, highwire) ELSE None
    IN  IF val.k = "raise" THEN val
        ELSE IF val.k # "none" THEN Dict(SetItem(bibtex, attr, val))
        ELSE Dict(bibtex)

\* bibtex['id'] = create_bibtex_id(bibtex)
WithId(bibtex) ==
    LET id == create_bibtex_id(bibtex)
    IN  IF id.k = "raise" THEN id ELSE Dict(SetItem(bibtex, <<"i","d">>, id))

\* --------------------------------------------------------------- inputs --

MaxTags == 2

Tag(name, content) ==
    <<"<","m","e","t","a"," ","n","a","m","e","=","\"">> \o name \o <<"\""," ","c","o","n","t","e","n","t","=","\"">> \o content \o <<"\"",">">>

TagPool ==
    << Tag(<<"c","i","t","a","t","i","o","n","_","a","u","t","h","o","r">>, <<"D","o","e",","," ","J">>),
       Tag(<<"c","i","t","a","t","i","o","n","_","t","i","t","l","e">>, <<"O","n"," ","x">>),
       Tag(<<"c","i","t","a","t","i","o","n","_","d","a","t","e">>, <<"M","a","y"," ","2","0","1","9">>),
       Tag(<<"c","i","t","a","t","i","o","n","_","t","y","p","e">>, <<"J","O","U","R">>) >>

RECURSIVE Concat(_)
Concat(parts) == IF parts = <<>> THEN <<>> ELSE parts[1] \o Concat(Tail(parts))

\* every page of at most MaxTags tags of the pool
PoolPages ==
    UNION { { Concat([i \in 1..n |-> TagPool[f[i]]]) : f \in [1..n -> 1..Len(TagPool)] }
              : n \in 0..MaxTags }

ScenarioUrl == <<"h","t","t","p","s",":","/","/","w","w","w",".","e","x","a","m","p","l","e",".","c","o","m","/","p","a","p","e","r">>
ScienceDirectUrl == <<"h","t","t","p","s",":","/","/","w","w","w",".","s","c","i","e","n","c","e","d","i","r","e","c","t",".","c","o","m","/","s","c","i","e","n","c","e","/","a","r","t","i","c","l","e">>
NoDomainUrl == <<"h","t","t","p","s",":","/","/","l","o","c","a","l","h","o","s","t","/","p","a","p","e","r">>

ScenarioHtml ==
    Concat(<< Tag(<<"c","i","t","a","t","i","o","n","_","t","i","t","l","e">>, <<"D","e","e","p"," ","L","e","a","r","n","i","n","g">>),
              Tag(<<"c","i","t","a","t","i","o","n","_","a","u","t","h","o","r">>, <<"J","a","n","e"," ","Q"," ","P","u","b","l","i","c">>),
              Tag(<<"c","i","t","a","t","i","o","n","_","d","a","t","e">>, <<"2","0","1","9","-","0","5","-","0","1">>),
              Tag(<<"c","i","t","a","t","i","o","n","_","j","o","u","r","n","a","l">>, <<"N","a","t","u","r","e">>),
              Tag(<<"c","i","t","a","t","i","o","n","_","d","o","i">>, <<"1","0",".","1","/","x","y","z">>) >>)

StudyHtml ==
    Concat(<< Tag(<<"c","i","t","a","t","i","o","n","_","a","u","t","h","o","r">>, <<"P","u","b","l","i","c",","," ","J","a","n","e"," ","Q">>),
              Tag(<<"c","i","t","a","t","i","o","n","_","a","u","t","h","o","r">>, <<"D","o","e",","," ","J","o","h","n">>),
              Tag(<<"c","i","t","a","t","i","o","n","_","t","i","t","l","e">>, <<"A"," ","S","t","u","d","y"," ","o","f"," ","T","h","i","n","g","s">>),
              Tag(<<"c","i","t","a","t","i","o","n","_","d","a","t","e">>, <<"2","0","1","9">>) >>)

AcronymHtml ==
    Concat(<< Tag(<<"c","i","t","a","t","i","o","n","_","a","u","t","h","o","r">>, <<"J","a","n","e"," ","Q"," ","P","u","b","l","i","c">>),
              Tag(<<"c","i","t","a","t","i","o","n","_","a","u","t","h","o","r">>, <<"D","o","e",","," ","J","o","h","n">>),
              Tag(<<"c","i","t","a","t","i","o","n","_","t","i","t","l","e">>, <<"D","N","A"," ","S","e","q","u","e","n","c","i","n","g"," ","M","a","p","s">>),
              Tag(<<"c","i","t","a","t","i","o","n","_","p","u","b","l","i","c","a","t","i","o","n","_","d","a","t","e">>, <<"2","0","1","9","/","0","5">>) >>)

AuthorGroupHtml ==
    <<"<","d","i","v"," ","i","d","=","\"","a","u","t","h","o","r","-","g","r","o","u","p","\"",">","<","a"," ","c","l","a","s","s","=","\"","a","u","t","h","o","r","\"",">","<","s","p","a","n"," ","c","l","a","s","s","=","\"","g","i","v","e","n","-","n","a","m","e","\"",">","J","a","n","e"," ","Q","<","/","s","p","a","n",">">>
      \o <<"<","s","p","a","n"," ","c","l","a","s","s","=","\"","s","u","r","n","a","m","e","\"",">","P","u","b","l","i","c","<","/","s","p","a","n",">","<","/","a",">","<","a"," ","c","l","a","s","s","=","\"","a","u","t","h","o","r","\"",">">>
      \o <<"<","s","p","a","n"," ","c","l","a","s","s","=","\"","g","i","v","e","n","-","n","a","m","e","\"",">","J","o","h","n","<","/","s","p","a","n",">","<","s","p","a","n"," ","c","l","a","s","s","=","\"","s","u","r","n","a","m","e","\"",">","D","o","e","<","/","s","p","a","n",">","<","/","a",">","<","/","d","i","v",">">>

ScenarioPages ==
    { ScenarioHtml, StudyHtml, AcronymHtml, AuthorGroupHtml,
      Tag(<<"c","i","t","a","t","i","o","n","_","a","u","t","h","o","r">>, <<"J","a","n","e"," ","Q"," ","P","u","b","l","i","c">>),
      Tag(<<"c","i","t","a","t","i","o","n","_","a","u","t","h","o","r">>, <<"P","u","b","l","i","c",","," ","J","a","n","e"," ","Q">>),
      Tag(<<"c","i","t","a","t","i","o","n","_","a","u","t","h","o","r">>, <<"J","a","n","e"," ","Q"," ","P","u","b","l","i","c">>) \o Tag(<<"c","i","t","a","t","i","o","n","_","a","u","t","h","o","r">>, <<"J","o","h","n"," ","D","o","e">>),
      Tag(<<"c","i","t","a","t","i","o","n","_","t","y","p","e">>, <<"A","r","t","i","c","l","e">>),
      Tag(<<"c","i","t","a","t","i","o","n","_","t","y","p","e">>, <<"b","o","o","k">>) \o Tag(<<"c","i","t","a","t","i","o","n","_","a","r","t","i","c","l","e","_","t","y","p","e">>, <<"r","e","s","e","a","r","c","h","-","a","r","t","i","c","l","e">>),
      Tag(<<"c","i","t","a","t","i","o","n","_","t","y","p","e">>, <<"b","o","o","k">>),
      Tag(<<"c","i","t","a","t","i","o","n","_","t","i","t","l","e">>, <<>>),
      Tag(<<"c","i","t","a","t","i","o","n","_","f","i","r","s","t","p","a","g","e">>, <<"5">>) \o Tag(<<"c","i","t","a","t","i","o","n","_","l","a","s","t","p","a","g","e">>, <<"1","2">>)
        \o Tag(<<"c","i","t","a","t","i","o","n","_","i","s","s","u","e">>, <<"3">>),
      Tag(<<"c","i","t","a","t","i","o","n","_","d","o","i">>, <<"1","0",".","1","/","a">>) \o Tag(<<"c","i","t","a","t","i","o","n","_","d","o","i">>, <<"1","0",".","1","/","b">>),
      <<"<","M","E","T","A"," ","n","a","m","e","=","\"","c","i","t","a","t","i","o","n","_","v","o","l","u","m","e","\""," ","c","o","n","t","e","n","t","=","\"","7","\"",">">>,
      <<"<"," ","m","e","t","a"," ","c","o","n","t","e","n","t","=","\"","X","\""," ","n","a","m","e","=","\"","c","i","t","a","t","i","o","n","_","t","i","t","l","e","\""," ",">">>,
      <<"<","m","e","t","a"," ","n","a","m","e","=","\"","c","i","t","a","t","i","o","n","_","c","i","t","a","t","i","o","n","_","t","i","t","l","e","\""," ","c","o","n","t","e","n","t","=","\"","X","\"",">">> \o Tag(<<"c","i","t","a","t","i","o","n","_","t","i","t","l","e">>, <<"Y">>),
      <<"<","m","e","t","a"," ","n","a","m","e","=","\"","c","i","t","a","t","i","o","n","_","r","e","f","e","r","e","n","c","e","\""," ","c","o","n","t","e","n","t","=","\"","R","\"",">","<","m","e","t","a"," ","n","a","m","e","=","\"","c","i","t","a","t","i","o","n","_","p","u","b","l","i","s","h","e","r","\"",">">>,
      <<"<","h","t","m","l",">","<","h","e","a","d",">","<","t","i","t","l","e",">","O","n"," ","x","<","/","t","i","t","l","e",">","<","m","e","t","a"," ","n","a","m","e","=","\"","d","e","s","c","r","i","p","t","i","o","n","\""," ","c","o","n","t","e","n","t","=","\"","d","\"",">","<","/","h","e","a","d",">","<","/","h","t","m","l",">">> }

Urls == { ScenarioUrl, ScienceDirectUrl, NoDomainUrl }

Pages == PoolPages \cup ScenarioPages

\* ---------------------------------------------------------------- state --

VARIABLES
    url,        \* the url argument of to_bibtex
    html,       \* the html argument of to_bibtex
    pc,         \* the statement to_bibtex (then the library) is at
    domain,     \* scrape_highwire's domain
    highwire,   \* scrape_highwire's highwire dict
    todo,       \* the attributes the running for loop has still to visit
    bibtex,     \* highwire_to_bibtex's bibtex dict
    text,       \* the str bibtex_to_str returned
    papers,     \* Library.papers
    err         \* <<function, exception>> of the raise that ended the run

vars == <<url, html, pc, domain, highwire, todo, bibtex, text, papers, err>>

Init ==
    /\ url \in Urls
    /\ html \in Pages
    /\ pc = "scrape_highwire"
    /\ domain = <<>>
    /\ highwire = <<>>
    /\ todo = {}
    /\ bibtex = <<>>
    /\ text = <<>>
    /\ papers = <<>>
    /\ err = <<>>

\* scrape_highwire lines 173-183: the domain, then the scan of the meta tags
ScanTags ==
    /\ pc = "scrape_highwire"
    /\ IF get_domain(url).k = "raise"
       THEN /\ pc' = "raised"
            /\ err' = <<"get_domain", get_domain(url).v>>
            /\ UNCHANGED <<domain, highwire, todo>>
       ELSE /\ domain' = get_domain(url).v
            /\ highwire' = Scan(html)
            /\ todo' = get_attributes
            /\ pc' = "fill"
            /\ UNCHANGED err
    /\ UNCHANGED <<url, html, bibtex, text, papers>>

\* scrape_highwire lines 184-188, one attribute of the set get_attributes()
\* returned, in the order the set happens to iterate
Fill(attr) ==
    /\ pc = "fill"
    /\ attr \in todo
    /\ LET filled == FillOne(highwire, domain, attr, html)
       IN  IF filled.k = "raise"
           THEN /\ pc' = "raised"
                /\ err' = <<"scrape_highwire", filled.v>>
                /\ UNCHANGED <<highwire, todo>>
           ELSE /\ highwire' = filled.v
                /\ todo' = todo \ {attr}
                /\ UNCHANGED <<pc, err>>
    /\ UNCHANGED <<url, html, domain, bibtex, text, papers>>

\* scrape_highwire lines 189-192, and highwire_to_bibtex lines 196-197
Collapse ==
    /\ pc = "fill"
    /\ todo = {}
    /\ highwire' = Collapsed(highwire)
    /\ bibtex' = <<>>
    /\ todo' = get_attributes
    /\ pc' = "resolve"
    /\ UNCHANGED <<url, html, domain, text, papers, err>>

\* highwire_to_bibtex lines 198-203, one attribute
Resolve(attr) ==
    /\ pc = "resolve"
    /\ attr \in todo
    /\ LET resolved == ResolveOne(bibtex, attr, highwire)
       IN  IF resolved.k = "raise"
           THEN /\ pc' = "raised"
                /\ err' = <<ResolverName(attr), resolved.v>>
                /\ UNCHANGED <<bibtex, todo>>
           ELSE /\ bibtex' = resolved.v
                /\ todo' = todo \ {attr}
                /\ UNCHANGED <<pc, err>>
    /\ UNCHANGED <<url, html, domain, highwire, text, papers>>

\* highwire_to_bibtex lines 204-205
MakeId ==
    /\ pc = "resolve"
    /\ todo = {}
    /\ IF WithId(bibtex).k = "raise"
       THEN /\ pc' = "raised"
            /\ err' = <<"create_bibtex_id", WithId(bibtex).v>>
            /\ UNCHANGED bibtex
       ELSE /\ bibtex' = WithId(bibtex).v
            /\ pc' = "bibtex_to_str"
            /\ UNCHANGED err
    /\ UNCHANGED <<url, html, domain, highwire, todo, text, papers>>

\* to_bibtex line 223
Serialize ==
    /\ pc = "bibtex_to_str"
    /\ text' = bibtex_to_str(bibtex)
    /\ pc' = "_read_bibtex"
    /\ UNCHANGED <<url, html, domain, highwire, todo, bibtex, papers, err>>

\* the entry is the library file; Library.__init__ reads it
ReadLibrary ==
    /\ pc = "_read_bibtex"
    /\ IF _read_bibtex(text).k = "raise"
       THEN /\ pc' = "raised"
            /\ err' = <<"_read_bibtex", _read_bibtex(text).v>>
            /\ UNCHANGED papers
       ELSE /\ papers' = _read_bibtex(text).v
            /\ pc' = "done"
            /\ UNCHANGED err
    /\ UNCHANGED <<url, html, domain, highwire, todo, bibtex, text>>

Next ==
    \/ ScanTags
    \/ \E attr \in get_attributes : Fill(attr)
    \/ Collapse
    \/ \E attr \in get_attributes : Resolve(attr)
    \/ MakeId
    \/ Serialize
    \/ ReadLibrary

Spec == Init /\ [][Next]_vars

\* --------------------------------------------------------------- claims --

\* highwire_to_bibtex has returned the Record
Returned ==
    \/ pc \in {"bibtex_to_str", "_read_bibtex", "done"}
    \/ pc = "raised" /\ err[1] = "_read_bibtex"

\* bibtex_to_str has returned the text
Serialized ==
    \/ pc \in {"_read_bibtex", "done"}
    \/ pc = "raised" /\ err[1] = "_read_bibtex"

\* to_bibtex raised
Failed == pc = "raised" /\ err[1] # "_read_bibtex"

\* the Record as a mapping
AsMap(d) == [key \in Keys(d) |-> Item(d, key)]

ScenarioText ==
    <<"@","a","r","t","i","c","l","e"," ","{","P","u","b","l","i","c","2","0","1","9","D","e","e","p","L","e","a","r","n","i","n","g",",","\n"," "," "," "," ","a","u","t","h","o","r"," ","="," ","{","P","u","b","l","i","c",","," ","J","a","n","e"," ","Q","}",",","\n"," "," "," "," ","d","o","i"," ","="," ","{","1","0",".","1","/","x","y","z","}",",","\n"," "," "," "," ","j","o","u","r","n","a","l"," ","="," ","{","N","a","t","u","r","e","}",",","\n"," "," "," "," ","t","i","t","l","e"," ","="," ","{","D","e","e","p"," ","L","e","a","r","n","i","n","g","}",",","\n"," "," "," "," ","y","e","a","r"," ","="," ","{","2","0","1","9","}",",","\n","}">>

\* C1: on the url without a site override and the page of the five meta tags
\* of the end-to-end scenario, to_bibtex returns and its text is exactly the
\* @article entry Public2019DeepLearning of the scenario.
C1_EndToEnd ==
    url = ScenarioUrl /\ html = ScenarioHtml
        => ~Failed /\ (Serialized => text = ScenarioText)

\* the citation key as C2 states it
ClaimId(d) ==
    IF ~({<<"a","u","t","h","o","r">>, <<"y","e","a","r">>, <<"t","i","t","l","e">>} \subseteq Keys(d)) THEN <<"F","I","X","M","E">>
    ELSE LET kept == SelectSeq(Item(d, <<"t","i","t","l","e">>).v, LAMBDA c : IsAlnum(c) \/ IsSpace(c))
             words == Split(kept)
             parts == SubSeq(words, 1, IF Len(words) < 3 THEN Len(words) ELSE 3)
         IN  SplitOn(Item(d, <<"a","u","t","h","o","r">>).v, ",")[1] \o Item(d, <<"y","e","a","r">>).v
               \o Concat([i \in 1..Len(parts) |-> Capitalize(parts[i])])

\* C2: the id of a Record is FIXME when author, year or title is absent, and
\* otherwise the author up to its first comma, the year, and the first three
\* words of the title, each with its first letter upper-cased and its other
\* letters in their original case.
C2_BibtexId ==
    Returned /\ (\A i \in 1..Len(bibtex) : bibtex[i][2].k = "str")
        => Item(bibtex, <<"i","d">>).v = ClaimId(bibtex)

\* the author of the Record as C3 states it, for the names of the tags
ClaimAuthor(names) ==
    IF \A i \in 1..Len(names) : Contains(names[i], <<",">>)
    THEN Join(names, <<" ","a","n","d"," ">>)
    ELSE Join([i \in 1..Len(names) |->
                 LET tokens == Split(names[i])
                 IN  IF tokens = <<>> THEN <<","," ">>
                     ELSE tokens[Len(tokens)] \o <<","," ">>
                            \o Join(SubSeq(tokens, 1, Len(tokens) - 1), <<" ">>)],
              <<" ","a","n","d"," ">>)

\* the values the tags of a key gave, from the value the dict holds for it
\* once scrape_highwire has returned
Names(val) == IF val.k = "str" THEN <<val.v>> ELSE val.v

\* C3: for a page with one or more citation_author tags, the author of the
\* Record is the names joined by ' and ' when each has a comma, and otherwise
\* each name rewritten as 'last token, other tokens'; a single name included.
C3_AuthorPipeline ==
    /\ ~(pc = "raised" /\ err[1] = "parse_author")
    /\ ( /\ Returned \/ (pc = "resolve" /\ <<"a","u","t","h","o","r">> \notin todo)
         /\ <<"a","u","t","h","o","r">> \in DOMAIN highwire
         /\ Contains(html, <<"n","a","m","e","=","\"","c","i","t","a","t","i","o","n","_","a","u","t","h","o","r","\"">>) )
         => /\ <<"a","u","t","h","o","r">> \in Keys(bibtex)
            /\ Item(bibtex, <<"a","u","t","h","o","r">>) = Str(ClaimAuthor(Names(highwire[<<"a","u","t","h","o","r">>])))

\* C4: the text of a Record, read back by Library._read_bibtex, gives exactly
\* one Paper, under the Record's id, with the Record's type, attributes and
\* values, and no assertion of the reader fails.
C4_RoundTrip ==
    Serialized /\ pc # "_read_bibtex"
        => /\ pc = "done"
           /\ DOMAIN papers = {Item(bibtex, <<"i","d">>).v}
           /\ \A id \in DOMAIN papers :
                [key \in DOMAIN papers[id] |-> Str(papers[id][key])] = AsMap(bibtex)

\* C5: every attribute of a returned Record maps to one non-empty string,
\* type is present, and id is present and was set last.
C5_RecordInvariant ==
    Returned
        => /\ \A i \in 1..Len(bibtex) : bibtex[i][2].k = "str" /\ bibtex[i][2].v # <<>>
           /\ <<"t","y","p","e">> \in Keys(bibtex)
           /\ bibtex[Len(bibtex)][1] = <<"i","d">>

\* the type as C6 states it: the lower-cased value of a candidate decides
ClaimType(h) ==
    LET matches(key) == /\ key \in DOMAIN h
                        /\ h[key].k = "str"
                        /\ \/ Lower(h[key].v) = <<"j","o","u","r">>
                           \/ Contains(Lower(h[key].v), <<"a","r","t","i","c","l","e">>)
    IN  IF matches(<<"t","y","p","e">>) \/ matches(<<"a","r","t","i","c","l","e","_","t","y","p","e">>)
        THEN <<"a","r","t","i","c","l","e">> ELSE <<"i","n","p","r","o","c","e","e","d","i","n","g","s">>

\* C6: parse_type examines type then article_type, gives article as soon as
\* the lower-cased value of a present candidate equals jour or contains
\* article, and inproceedings otherwise: always one of the two.
C6_ParseType ==
    /\ ~(pc = "raised" /\ err[1] = "parse_type")
    /\ Returned \/ (pc = "resolve" /\ <<"t","y","p","e">> \notin todo)
         => Item(bibtex, <<"t","y","p","e">>) = Str(ClaimType(highwire))

\* the domain of the url has no site override
NoOverride == \A attr \in get_attributes : (<<"s","c","r","a","p","e","_">> \o domain \o <<"_">> \o attr) \notin Globals

\* C7: whatever the markup, on a url whose domain has no site override
\* scrape_highwire, highwire_to_bibtex and bibtex_to_str return without a
\* raise; a page without citation meta tag gives id FIXME, type inproceedings.
C7_NoErrorSurfaces ==
    get_domain(url).k = "str" /\ pc # "scrape_highwire" /\ NoOverride
        => /\ ~Failed
           /\ Returned /\ ~Contains(html, <<"c","i","t","a","t","i","o","n","_">>)
                => /\ Item(bibtex, <<"i","d">>) = Str(<<"F","I","X","M","E">>)
                   /\ Item(bibtex, <<"t","y","p","e">>) = Str(<<"i","n","p","r","o","c","e","e","d","i","n","g","s">>)

\* the meta tags as C8 states them: the tag name in any case
RECURSIVE ClaimMetaTags(_, _)
ClaimMetaTags(page, i) ==
    LET opens == { j \in i..Len(page) : page[j] = "<" }
    IN  IF opens = {} THEN <<>>
        ELSE LET o == Min(opens)
                 notws == { j \in (o + 1)..Len(page) : ~IsSpace(page[j]) }
                 m == IF notws = {} THEN Len(page) + 1 ELSE Min(notws)
                 closes == { j \in (m + 4)..Len(page) : page[j] = ">" }
             IN  IF /\ m + 3 <= Len(page)
                    /\ Lower(SubSeq(page, m, m + 3)) = <<"m","e","t","a">>
                    /\ closes # {}
                 THEN <<SubSeq(page, o, Min(closes))>> \o ClaimMetaTags(page, Min(closes) + 1)
                 ELSE ClaimMetaTags(page, o + 1)

\* the RawMetadata as C8 states it: one key per retained name, the name less
\* its leading citation_
ClaimScan(page) ==
    LET tags == ClaimMetaTags(page, 1)
        kept == SelectSeq(tags, LAMBDA t : Retained(AttrGet(t, <<"n","a","m","e">>)))
        keys == { From(AttrGet(kept[i], <<"n","a","m","e">>), 10) : i \in 1..Len(kept) }
    IN  [key \in keys |->
           LET mine == SelectSeq(kept, LAMBDA t : From(AttrGet(t, <<"n","a","m","e">>), 10) = key)
           IN  List([i \in 1..Len(mine) |-> AttrGet(mine[i], <<"c","o","n","t","e","n","t">>)])]

\* C8: the scan keeps one key per name that begins with citation_ and is not
\* citation_reference, of the meta tags matched in any case, the key being
\* the name less its leading citation_, the values in document order; then a
\* key with one value holds that value and the others keep their sequence.
C8_TagExtractor ==
    /\ pc = "fill" /\ todo = get_attributes => highwire = ClaimScan(html)
    /\ pc = "resolve" /\ todo = get_attributes
         => \A key \in DOMAIN ClaimScan(html) :
              /\ key \in DOMAIN highwire
              /\ highwire[key] = Collapsed(ClaimScan(html))[key]

\* C9: on a sciencedirect page without citation_author tag and without
\* author-group element the override returns no data and the run goes on to
\* a Record without author and with id FIXME; and an attribute the scan
\* collected keeps the value of its tags.
C9_OverrideGraceful ==
    /\ ( /\ domain = <<"s","c","i","e","n","c","e","d","i","r","e","c","t">>
         /\ ~Contains(html, <<"n","a","m","e","=","\"","c","i","t","a","t","i","o","n","_","a","u","t","h","o","r","\"">>)
         /\ ~Contains(html, <<"i","d","=","\"","a","u","t","h","o","r","-","g","r","o","u","p","\"">>) )
         => /\ ~(pc = "raised" /\ err[1] = "scrape_highwire")
            /\ Returned => /\ <<"a","u","t","h","o","r">> \notin Keys(bibtex)
                           /\ Item(bibtex, <<"i","d">>) = Str(<<"F","I","X","M","E">>)
    /\ pc = "fill" /\ todo = {}
         => \A key \in DOMAIN Scan(html) : highwire[key] = Scan(html)[key]

\* the attributes in one fixed order
AttrOrder ==
    << <<"a","u","t","h","o","r">>, <<"d","o","i">>, <<"j","o","u","r","n","a","l">>, <<"n","u","m","b","e","r">>, <<"p","a","g","e","s">>,
       <<"p","u","b","l","i","s","h","e","r">>, <<"t","i","t","l","e">>, <<"t","y","p","e">>, <<"v","o","l","u","m","e">>, <<"y","e","a","r">> >>

\* the first loop of scrape_highwire over the attributes in AttrOrder, from
\* the dict scanned: the dict before the collapse, or the raise
RefFill(scanned, d, page) ==
    LET RECURSIVE fill(_, _)
        fill(h, i) ==
            IF h.k = "raise" \/ i > Len(AttrOrder) THEN h
            ELSE fill(FillOne(h.v, d, AttrOrder[i], page), i + 1)
    IN  fill(Dict(scanned), 1)

\* highwire_to_bibtex with its loop over the attributes in AttrOrder: the
\* Record, or the raise
RefRecord(h) ==
    LET RECURSIVE resolve(_, _)
        resolve(d, i) ==
            IF d.k = "raise" \/ i > Len(AttrOrder) THEN d
            ELSE resolve(ResolveOne(d.v, AttrOrder[i], h), i + 1)
        resolved == resolve(Dict(<<>>), 1)
    IN  IF resolved.k = "raise" THEN resolved ELSE WithId(resolved.v)

\* C10: whatever the order in which the two loops visit the attributes, the
\* dict the first loop leaves, the Record and the text are those of the loops
\* that visit them in one fixed order, and a loop raises only if that one does.
C10_OrderIndependence ==
    /\ pc = "fill" /\ todo = {} => RefFill(Scan(html), domain, html) = Dict(highwire)
    /\ pc = "raised" /\ err[1] = "scrape_highwire"
         => RefFill(highwire, domain, html).k = "raise"
    /\ Returned => /\ RefRecord(highwire).k = "dict"
                   /\ AsMap(bibtex) = AsMap(RefRecord(highwire).v)
    /\ Serialized => text = bibtex_to_str(RefRecord(highwire).v)
    /\ Failed /\ err[1] \notin {"get_domain", "scrape_highwire"}
         => RefRecord(highwire).k = "raise"

\* a Record of three attributes and more that a run built out of sorted
\* order has been serialised
C10_Witness ==
    /\ Serialized
    /\ Len(bibtex) >= 4
    /\ \E i \in 1..(Len(bibtex) - 2) : StrLess(bibtex[i + 1][1], bibtex[i][1])

====
